---- MODULE Spec2Model ----
(***************************************************************************)
(* Resume screening agent.                                                 *)
(*   ResumeScorer     src/src/scorer.py      evaluate, _extract_keywords   *)
(*   ResumeRetriever  src/src/retriever.py   build_index, search           *)
(*   pipeline         src/main.py, src/streamlit_app.py                    *)
(* A text is a sequence of one-character strings.  Ratings are kept in     *)
(* hundredths (750 stands for 7.5).                                        *)
(***************************************************************************)
EXTENDS Integers, Sequences, FiniteSets, TLC

VARIABLES
    \* ResumeScorer.evaluate: its arguments, what the generation pipeline did,
    \* and what the call produced
    job_description, resume_text, generation, result, outcome, score_value, spc,
    \* ResumeRetriever: its fields, and the last call with what it produced
    index, texts, last_op, last_query, last_k, results, error,
    ever_built, builds,
    \* one screening run of main.py / streamlit_app.py
    files, jd, front, resume_texts, resume_names, search_results, report, perror, ppc

scorer_vars == <<job_description, resume_text, generation, result, outcome, score_value, spc>>
retriever_vars == <<index, texts, last_op, last_query, last_k, results, error,
                    ever_built, builds>>
pipeline_vars == <<files, jd, front, resume_texts, resume_names, search_results,
                   report, perror, ppc>>
vars == <<scorer_vars, retriever_vars, pipeline_vars>>

----------------------------------------------------------------------------
(* Bounds *)

\* words per generated job description / resume
MaxWords == 2
\* distinct non-empty texts a resume can hold
NumTexts == 2
\* resumes handed to one build_index call
MaxResumes == 3
\* largest top_k passed to search
MaxTopK == 3
\* files in the resume directory / uploaded in one run
MaxFiles == 3

----------------------------------------------------------------------------
(* Characters and strings *)

Range(s) == {s[i] : i \in 1..Len(s)}

Min(a, b) == IF a < b THEN a ELSE b

Uppers == <<"A", "B", "C", "D", "E", "F", "G", "H", "I", "J", "K", "L", "M",
            "N", "O", "P", "Q", "R", "S", "T", "U", "V", "W", "X", "Y", "Z">>

Lowers == <<"a", "b", "c", "d", "e", "f", "g", "h", "i", "j", "k", "l", "m",
            "n", "o", "p", "q", "r", "s", "t", "u", "v", "w", "x", "y", "z">>

Digits == <<"0", "1", "2", "3", "4", "5", "6", "7", "8", "9">>

\* string.punctuation (the backquote, which a string literal here cannot hold, left out)
Punctuation ==
    {"!", "\"", "#", "$", "%", "&", "'", "(", ")", "*", "+", ",", "-", ".", "/", ":",
     ";", "<", "=", ">", "?", "@", "[", "\\", "]", "^", "_", "{", "|", "}", "~"}

\* what str.split() and str.strip() treat as whitespace (ASCII)
Whitespace == {" ", "\t", "\n", "\r", "\f"}

IsDigit(c) == \E i \in 1..Len(Digits) : Digits[i] = c

LowerChar(c) ==
    IF \E i \in 1..26 : Uppers[i] = c
    THEN Lowers[CHOOSE i \in 1..26 : Uppers[i] = c]
    ELSE c

UpperChar(c) ==
    IF \E i \in 1..26 : Lowers[i] = c
    THEN Uppers[CHOOSE i \in 1..26 : Lowers[i] = c]
    ELSE c

\* str.lower()
Lower(text) == [i \in 1..Len(text) |-> LowerChar(text[i])]

\* str.capitalize(): first character upper-cased, the rest lower-cased
Capitalize(text) ==
    [i \in 1..Len(text) |-> IF i = 1 THEN UpperChar(text[i]) ELSE LowerChar(text[i])]

\* text.translate(str.maketrans(string.punctuation, ' ' * len(string.punctuation)))
Translate(text) ==
    [i \in 1..Len(text) |-> IF text[i] \in Punctuation THEN " " ELSE text[i]]

\* str.split(): the maximal runs of non-whitespace characters, left to right
RECURSIVE SplitFrom(_, _, _, _)
SplitFrom(text, i, cur, acc) ==
    IF i > Len(text)
    THEN IF cur = <<>> THEN acc ELSE Append(acc, cur)
    ELSE IF text[i] \in Whitespace
         THEN SplitFrom(text, i + 1, <<>>, IF cur = <<>> THEN acc ELSE Append(acc, cur))
         ELSE SplitFrom(text, i + 1, Append(cur, text[i]), acc)

Split(text) == SplitFrom(text, 1, <<>>, <<>>)

\* str.strip()
RECURSIVE LStrip(_)
LStrip(text) ==
    IF text # <<>> /\ Head(text) \in Whitespace THEN LStrip(Tail(text)) ELSE text

RECURSIVE RStrip(_)
RStrip(text) ==
    IF text # <<>> /\ text[Len(text)] \in Whitespace
    THEN RStrip(SubSeq(text, 1, Len(text) - 1))
    ELSE text

Strip(text) == RStrip(LStrip(text))

\* code point order on the characters a keyword can hold
CodeOrder == Digits \o Lowers

Ord(c) == IF \E i \in 1..Len(CodeOrder) : CodeOrder[i] = c
          THEN CHOOSE i \in 1..Len(CodeOrder) : CodeOrder[i] = c
          ELSE 0

\* a < b for Python strings
RECURSIVE StrLess(_, _)
StrLess(a, b) ==
    IF b = <<>> THEN FALSE
    ELSE IF a = <<>> THEN TRUE
    ELSE IF Ord(Head(a)) # Ord(Head(b)) THEN Ord(Head(a)) < Ord(Head(b))
    ELSE StrLess(Tail(a), Tail(b))

\* sorted(set_of_strings)
RECURSIVE Sorted(_)
Sorted(S) ==
    IF S = {} THEN <<>>
    ELSE LET m == CHOOSE x \in S : \A y \in S \ {x} : StrLess(x, y)
         IN <<m>> \o Sorted(S \ {m})

CommaSpace == <<",", " ">>

\* ", ".join(list)
RECURSIVE Join(_)
Join(list) ==
    IF list = <<>> THEN <<>>
    ELSE IF Len(list) = 1 THEN list[1]
    ELSE list[1] \o CommaSpace \o Join(Tail(list))

\* str(n) for an integer n >= 0
RECURSIVE IntToStr(_)
IntToStr(n) ==
    IF n < 10 THEN <<Digits[n + 1]>>
    ELSE Append(IntToStr(n \div 10), Digits[(n % 10) + 1])

\* str(x) for the float x = h / 100 that round(_, 2) returns
FormatFloat(h) ==
    IntToStr(h \div 100) \o <<".">> \o
    (IF h % 10 = 0 THEN <<Digits[((h % 100) \div 10) + 1]>>
     ELSE <<Digits[((h % 100) \div 10) + 1], Digits[(h % 10) + 1]>>)

----------------------------------------------------------------------------
(* ResumeScorer *)

\* self.stopwords
stopwords ==
    {
      <<"a", "n", "d">>,
      <<"o", "r">>,
      <<"t", "h", "e">>,
      <<"w", "i", "t", "h">>,
      <<"i", "n">>,
      <<"t", "o">>,
      <<"f", "o", "r">>,
      <<"o", "f">>,
      <<"o", "n">>,
      <<"b", "y">>,
      <<"a">>,
      <<"a", "n">>,
      <<"i", "s">>,
      <<"a", "r", "e">>,
      <<"w", "a", "s">>,
      <<"w", "e", "r", "e">>,
      <<"b", "e">>,
      <<"b", "e", "e", "n">>,
      <<"h", "a", "s">>,
      <<"h", "a", "v", "e">>,
      <<"h", "a", "d">>,
      <<"e", "x", "p", "e", "r", "i", "e", "n", "c", "e">>,
      <<"e", "x", "p", "e", "r", "i", "e", "n", "c", "e", "s">>,
      <<"s", "k", "i", "l", "l">>,
      <<"s", "k", "i", "l", "l", "s">>,
      <<"u", "s", "i", "n", "g">>,
      <<"u", "s", "e">>,
      <<"w", "o", "r", "k", "i", "n", "g">>,
      <<"w", "o", "r", "k">>,
      <<"r", "e", "s", "p", "o", "n", "s", "i", "b", "i", "l", "i", "t", "i", "e", "s">>,
      <<"r", "e", "s", "p", "o", "n", "s", "i", "b", "i", "l", "i", "t", "y">>,
      <<"i", "n", "c", "l", "u", "d", "i", "n", "g">>,
      <<"e", "t", "c">>
    }

MinTokenLen == 3

\* ResumeScorer._extract_keywords
extract_keywords(text) ==
    {tok \in Range(Split(Translate(Lower(text)))) :
        Len(tok) > MinTokenLen /\ tok \notin stopwords}

\* re.fullmatch(r'\d+(\.\d+)?', s): st is the position in the pattern,
\* 0 before the first digit, 1 in the integer part, 2 right after the dot,
\* 3 in the decimal part
RECURSIVE MatchFrom(_, _, _)
MatchFrom(s, i, st) ==
    IF i > Len(s) THEN st \in {1, 3}
    ELSE IF IsDigit(s[i]) THEN MatchFrom(s, i + 1, IF st \in {0, 1} THEN 1 ELSE 3)
    ELSE IF s[i] = "." /\ st = 1 THEN MatchFrom(s, i + 1, 2)
    ELSE FALSE

FullMatchNumber(s) == MatchFrom(s, 1, 0)

\* the threshold of "very short" in evaluate
MinResultLen == 20

IsTrivialNoLength(r) == r = <<>> \/ FullMatchNumber(r)

\* the test of line 96: empty, purely numeric, or shorter than 20 characters
IsTrivial(r) == r = <<>> \/ FullMatchNumber(r) \/ Len(r) < MinResultLen

\* round(x, 2) of x = c / n * 10, in hundredths; a tie goes to the even neighbour
RoundHundredths(c, n) ==
    LET q == (1000 * c) \div n
        r == (1000 * c) % n
    IN IF 2 * r < n THEN q
       ELSE IF 2 * r > n THEN q + 1
       ELSE IF q % 2 = 0 THEN q ELSE q + 1

ScoreOverResume(common, jd_keywords, res_keywords) ==
    IF res_keywords # {}
    THEN RoundHundredths(Cardinality(common), Cardinality(res_keywords))
    ELSE 0

\* lines 103-106
ScoreValue(common, jd_keywords, res_keywords) ==
    IF jd_keywords # {}
    THEN RoundHundredths(Cardinality(common), Cardinality(jd_keywords))
    ELSE 0

S_Rating ==
    <<"R", "a", "t", "i", "n", "g", ":", " ">>

S_Slash10 ==
    <<"/", "1", "0", ".", " ">>

S_ShowsExperience ==
    <<"T", "h", "e", " ", "r", "e", "s", "u", "m", "e", " ", "s", "h", "o", "w", "s",
      " ", "e", "x", "p", "e", "r", "i", "e", "n", "c", "e", " ", "i", "n", " ">>

S_WhichAligns ==
    <<",", " ", "w", "h", "i", "c", "h", " ", "a", "l", "i", "g", "n", "s", " ", "w",
      "i", "t", "h", " ", "t", "h", "e", " ", "j", "o", "b", " ", "d", "e", "s", "c",
      "r", "i", "p", "t", "i", "o", "n", ".">>

S_NoOverlap ==
    <<"T", "h", "e", " ", "r", "e", "s", "u", "m", "e", " ", "d", "o", "e", "s", " ",
      "n", "o", "t", " ", "s", "h", "o", "w", " ", "c", "l", "e", "a", "r", " ", "k",
      "e", "y", "w", "o", "r", "d", " ", "o", "v", "e", "r", "l", "a", "p", " ", "w",
      "i", "t", "h", " ", "t", "h", "e", " ", "j", "o", "b", " ", "d", "e", "s", "c",
      "r", "i", "p", "t", "i", "o", "n", ".">>

S_Missing ==
    <<" ", "M", "i", "s", "s", "i", "n", "g", " ", "k", "e", "y", " ", "t", "e", "r",
      "m", "s", " ", "i", "n", "c", "l", "u", "d", "e", ":", " ">>

MaxMissingListed == 3

CapitalizeAll(list) == [i \in 1..Len(list) |-> Capitalize(list[i])]

MissingClauseTwo(missing) ==
    IF missing # {}
    THEN S_Missing \o Join(CapitalizeAll(SubSeq(Sorted(missing), 1, Min(2, Cardinality(missing)))))
         \o <<".">>
    ELSE <<>>

\* lines 123-128
MissingClause(missing) ==
    IF missing # {}
    THEN S_Missing
         \o Join(CapitalizeAll(SubSeq(Sorted(missing), 1,
                                      Min(MaxMissingListed, Cardinality(missing)))))
         \o <<".">>
    ELSE <<>>

\* lines 109-120
Explanation(common) ==
    IF common # {}
    THEN S_ShowsExperience \o Join(CapitalizeAll(Sorted(common))) \o S_WhichAligns
    ELSE S_NoOverlap

\* the fallback branch of evaluate, lines 98-130
Fallback(jd_text, res_text) ==
    LET jd_keywords == extract_keywords(jd_text)
        res_keywords == extract_keywords(res_text)
        common == jd_keywords \cap res_keywords
        score == ScoreValue(common, jd_keywords, res_keywords)
        missing == jd_keywords \ res_keywords
    IN [score |-> score,
        text |-> S_Rating \o FormatFloat(score) \o S_Slash10
                 \o Explanation(common) \o MissingClause(missing)]

\* What self.pipeline(prompt, ...) can do: raise, return a list whose first
\* entry has no 'generated_text', or return a generated text.
GenerateUncaught(g) ==
    IF g.kind = "raise" THEN [raised |-> TRUE, result |-> <<>>]
    ELSE IF g.kind = "no_key" THEN [raised |-> FALSE, result |-> Strip(<<>>)]
    ELSE [raised |-> FALSE, result |-> Strip(g.text)]

\* lines 87-92: the try block; any exception leaves result = ""
TryGenerate(g) ==
    IF g.kind = "raise" THEN [raised |-> FALSE, result |-> <<>>]
    ELSE IF g.kind = "no_key" THEN [raised |-> FALSE, result |-> Strip(<<>>)]
    ELSE [raised |-> FALSE, result |-> Strip(g.text)]

(* Inputs of evaluate *)

Vocabulary == <<
    <<"P", "y", "t", "h", "o", "n">>,
    <<"e", "x", "p", "e", "r", "i", "e", "n", "c", "e", ",">>,
    <<"M", "a", "c", "h", "i", "n", "e", "-", "L", "e", "a", "r", "n", "i", "n", "g">>
    >>

RECURSIVE JoinWords(_)
JoinWords(ws) ==
    IF ws = <<>> THEN <<>>
    ELSE IF Len(ws) = 1 THEN ws[1]
    ELSE ws[1] \o <<" ">> \o JoinWords(Tail(ws))

T_Query ==
    <<"P", "y", "t", "h", "o", "n", " ", "a", "n", "d", " ", "M", "a", "c", "h", "i",
      "n", "e", " ", "L", "e", "a", "r", "n", "i", "n", "g", " ", "e", "x", "p", "e",
      "r", "i", "e", "n", "c", "e", " ", "r", "e", "q", "u", "i", "r", "e", "d">>

T_Candidate ==
    <<"5", " ", "y", "e", "a", "r", "s", " ", "P", "y", "t", "h", "o", "n", " ", "a",
      "n", "d", " ", "M", "a", "c", "h", "i", "n", "e", " ", "L", "e", "a", "r", "n",
      "i", "n", "g", " ", "d", "e", "v", "e", "l", "o", "p", "m", "e", "n", "t">>

T_Java ==
    <<"J", "a", "v", "a", " ", "b", "a", "c", "k", "e", "n", "d", " ", "d", "e", "v",
      "e", "l", "o", "p", "e", "r">>

T_Mixed ==
    <<"C", "+", "+", "/", "S", "Q", "L", ",", " ", "W", "e", "b", "3", ".", "0", "\n",
      "J", "A", "V", "A", " ", "d", "e", "v", "e", "l", "o", "p", "e", "r", "\t", "2",
      "0", "2", "4", "s", " ", "K", "o", "t", "l", "i", "n", "-", "b", "a", "c", "k",
      "e", "n", "d", ";", " ", "D", "o", "c", "k", "e", "r">>

\* the texts of at most MaxWords words of the vocabulary, single-spaced
WordTexts ==
    UNION {{JoinWords([i \in 1..n |-> Vocabulary[f[i]]]) : f \in [1..n -> 1..Len(Vocabulary)]} :
             n \in 0..MaxWords}

TextPool == {T_Query, T_Candidate, T_Java, T_Mixed} \cup WordTexts

G_Seven ==
    <<"7">>

G_SevenFive ==
    <<"7", ".", "5">>

G_SevenDot ==
    <<"7", ".">>

G_Ten ==
    <<"G", "o", "o", "d", " ", "m", "a", "t", "c", "h">>

G_Nineteen ==
    <<"R", "a", "t", "i", "n", "g", ":", " ", "8", "/", "1", "0", ".", " ", "G", "o",
      "o", "d", ".">>

G_Twenty ==
    <<"R", "a", "t", "i", "n", "g", ":", " ", "8", "/", "1", "0", ".", " ", "S", "o",
      "l", "i", "d", ".">>

G_TwentyFive ==
    <<"R", "a", "t", "i", "n", "g", ":", " ", "8", "/", "1", "0", ".", " ", "S", "t",
      "r", "o", "n", "g", " ", "f", "i", "t", ".">>

G_LongInteger ==
    <<"1", "2", "3", "4", "5", "6", "7", "8", "9", "0", "1", "2", "3", "4", "5", "6",
      "7", "8", "9", "0", "1">>

G_LongDecimal ==
    <<"1", "2", "3", "4", "5", "6", "7", "8", "9", "0", ".", "1", "2", "3", "4", "5",
      "6", "7", "8", "9", "0">>

G_LongTwoDots ==
    <<"1", "2", "3", "4", "5", "6", "7", "8", "9", "0", ".", "1", "2", "3", "4", "5",
      ".", "6", "7", "8", "9", "0">>

G_Blank ==
    <<" ", "\n", " ">>

G_PaddedTwentyFive ==
    <<" ", "R", "a", "t", "i", "n", "g", ":", " ", "8", "/", "1", "0", ".", " ", "S",
      "t", "r", "o", "n", "g", " ", "f", "i", "t", ".", "\n">>

G_PaddedNineteen ==
    <<" ", " ", "R", "a", "t", "i", "n", "g", ":", " ", "8", "/", "1", "0", ".", " ",
      "G", "o", "o", "d", ".", " ">>

G_PaddedLongInteger ==
    <<" ", "1", "2", "3", "4", "5", "6", "7", "8", "9", "0", "1", "2", "3", "4", "5",
      "6", "7", "8", "9", "0", "1">>

GeneratedTexts ==
    {<<>>, G_Seven, G_SevenFive, G_SevenDot, G_Ten, G_Nineteen, G_Twenty, G_TwentyFive,
     G_LongInteger, G_LongDecimal, G_LongTwoDots, G_Blank, G_PaddedTwentyFive,
     G_PaddedNineteen, G_PaddedLongInteger}

GenerationBehaviours ==
    {[kind |-> "raise", text |-> <<>>], [kind |-> "no_key", text |-> <<>>]}
    \cup {[kind |-> "text", text |-> t] : t \in GeneratedTexts}

NoScore == 0 - 1

ScorerIdle ==
    /\ job_description = <<>>
    /\ resume_text = <<>>
    /\ generation = [kind |-> "none", text |-> <<>>]
    /\ result = <<>>
    /\ outcome = "none"
    /\ score_value = NoScore
    /\ spc = "idle"

ScorerInit ==
    /\ job_description \in TextPool
    /\ resume_text \in TextPool
    /\ generation = [kind |-> "none", text |-> <<>>]
    /\ result = <<>>
    /\ outcome = "none"
    /\ score_value = NoScore
    /\ spc = "start"

\* ResumeScorer.evaluate(job_description, resume_text)
evaluate ==
    /\ spc = "start"
    /\ \E g \in GenerationBehaviours :
         LET gen == TryGenerate(g)
         IN /\ generation' = g
            /\ IF gen.raised
               THEN /\ result' = <<>>
                    /\ outcome' = "Raised"
                    /\ score_value' = NoScore
               ELSE IF IsTrivial(gen.result)
               THEN LET fb == Fallback(job_description, resume_text)
                    IN /\ result' = fb.text
                       /\ outcome' = "Fallback"
                       /\ score_value' = fb.score
               ELSE /\ result' = gen.result
                    /\ outcome' = "Accepted"
                    /\ score_value' = NoScore
    /\ spc' = "done"
    /\ UNCHANGED <<job_description, resume_text>>

----------------------------------------------------------------------------
(* ResumeRetriever *)

\* The texts the sentence transformer is given, by number: 0 is the empty
\* text, which a job description may be; the others are resume texts.
ResumeTexts == 1..NumTexts

QueryTexts == 0..NumTexts

\* SentenceTransformer.encode for one text: a fixed vector per text.  Two
\* distinct texts may share a vector (NumTexts + 1 and 1 do).
Encode(t) == <<(t \div 2) % 2, t % 2>>

\* the squared Euclidean distance IndexFlatL2 reports
L2sqr(a, b) == (a[1] - b[1]) * (a[1] - b[1]) + (a[2] - b[2]) * (a[2] - b[2])

\* A field that holds None or an object: the empty tuple for None, the
\* one-tuple of the object otherwise.
None == <<>>

Some(x) == <<x>>

Get(field) == field[1]

\* FLT_MAX, the distance of an empty result slot; larger than any distance
\* between two vectors
FltMax == 2 ^ 30

NoLabel == 0 - 1

\* an empty slot of the result heap: (FLT_MAX, -1)
Neutral == [val |-> FltMax, id |-> NoLabel]

\* CMax::cmp
Cmp(a, b) == a > b

Cmp2IgnoringIds(a1, a2, b1, b2) == a1 > a2

\* CMax::cmp2: cmp, a tie decided by the ids
Cmp2(a1, a2, b1, b2) == a1 > a2 \/ (a1 = a2 /\ b1 > b2)

\* The loop shared by heap_replace_top and heap_pop: sift the hole at i down
\* the max-heap h[1..k] until entry e may sit in it.
RECURSIVE SiftDown(_, _, _, _)
SiftDown(h, k, e, i) ==
    LET i1 == 2 * i
        i2 == i1 + 1
    IN IF i1 > k THEN [heap |-> h, pos |-> i]
       ELSE IF i2 = k + 1 \/ Cmp2(h[i1].val, h[i2].val, h[i1].id, h[i2].id)
       THEN IF Cmp2(e.val, h[i1].val, e.id, h[i1].id)
            THEN [heap |-> h, pos |-> i]
            ELSE SiftDown([h EXCEPT ![i] = h[i1]], k, e, i1)
       ELSE IF Cmp2(e.val, h[i2].val, e.id, h[i2].id)
            THEN [heap |-> h, pos |-> i]
            ELSE SiftDown([h EXCEPT ![i] = h[i2]], k, e, i2)

heap_replace_top(h, k, e) ==
    LET r == SiftDown(h, k, e, 1) IN [r.heap EXCEPT ![r.pos] = e]

heap_pop(h, k) ==
    LET r == SiftDown(h, k, h[k], 1) IN [r.heap EXCEPT ![r.pos] = h[k]]

\* heap_reorder: pop the k entries, largest first, writing each behind the
\* ones still in the heap; an empty slot does not advance the write position
RECURSIVE ReorderLoop(_, _, _, _)
ReorderLoop(h, k, i, ii) ==
    IF i = k THEN [heap |-> h, nel |-> ii]
    ELSE LET top == h[1]
             popped == heap_pop(h, k - i)
         IN ReorderLoop([popped EXCEPT ![k - ii] = top], k, i + 1,
                        IF top.id # NoLabel THEN ii + 1 ELSE ii)

heap_reorder(h, k) ==
    LET r == ReorderLoop(h, k, 0, 0)
    IN [i \in 1..k |-> IF i <= r.nel THEN r.heap[k - r.nel + i] ELSE Neutral]

\* the scan over the stored vectors xb[j .. ], label j - 1 for xb[j]: a vector
\* enters the heap when it is strictly closer than the heap's top
RECURSIVE ScanFrom(_, _, _, _, _)
ScanFrom(h, k, xb, q, j) ==
    IF j > Len(xb) THEN h
    ELSE LET dis == L2sqr(q, xb[j])
         IN ScanFrom(IF Cmp(h[1].val, dis)
                     THEN heap_replace_top(h, k, [val |-> dis, id |-> j - 1])
                     ELSE h,
                     k, xb, q, j + 1)

\* faiss.IndexFlatL2.search(x, k) for one query vector: k (distance, label)
\* slots, nearest first, the slots past the stored vectors left (FLT_MAX, -1)
IndexSearch(xb, q, k) ==
    heap_reorder(ScanFrom([i \in 1..k |-> Neutral], k, xb, q, 1), k)

BuildIndexAppending(self_index, self_texts, new_texts) ==
    IF new_texts = <<>>
    THEN [error |-> "IndexError", index |-> self_index, texts |-> self_texts]
    ELSE [error |-> "none",
          index |-> Some((IF self_index = None THEN <<>> ELSE Get(self_index))
                         \o [i \in 1..Len(new_texts) |-> Encode(new_texts[i])]),
          texts |-> Some(new_texts)]

\* ResumeRetriever.build_index(texts).  For an empty list the embeddings
\* array has one axis, embeddings.shape[1] raises IndexError and neither
\* field is assigned.
BuildIndex(self_index, self_texts, new_texts) ==
    IF new_texts = <<>>
    THEN [error |-> "IndexError", index |-> self_index, texts |-> self_texts]
    ELSE [error |-> "none",
          index |-> Some([i \in 1..Len(new_texts) |-> Encode(new_texts[i])]),
          texts |-> Some(new_texts)]

SearchUnguarded(self_index, query, top_k) ==
    IF self_index = None
    THEN [error |-> "AttributeError", results |-> <<>>]
    ELSE LET found == IndexSearch(Get(self_index), Encode(query), top_k)
         IN [error |-> "none",
             results |-> [i \in 1..top_k |-> <<found[i].id, found[i].val>>]]

\* ResumeRetriever.search(query, top_k): the list of (index, distance)
Search(self_index, query, top_k) ==
    IF self_index = None
    THEN [error |-> "IndexNotBuilt", results |-> <<>>]
    ELSE LET found == IndexSearch(Get(self_index), Encode(query), top_k)
         IN [error |-> "none",
             results |-> [i \in 1..top_k |-> <<found[i].id, found[i].val>>]]

\* the lists build_index is called with
TextLists == UNION {[1..n -> ResumeTexts] : n \in 0..MaxResumes}

MaxBuildsCounted == 2

RetrieverIdle ==
    /\ index = None
    /\ texts = None
    /\ last_op = "idle"
    /\ last_query = 0
    /\ last_k = 0
    /\ results = <<>>
    /\ error = "none"
    /\ ever_built = FALSE
    /\ builds = 0

\* ResumeRetriever.__init__
RetrieverInit ==
    /\ index = None
    /\ texts = None
    /\ last_op = "init"
    /\ last_query = 0
    /\ last_k = 0
    /\ results = <<>>
    /\ error = "none"
    /\ ever_built = FALSE
    /\ builds = 0

\* a call retriever.build_index(new_texts)
build_index ==
    \E new_texts \in TextLists :
      LET b == BuildIndex(index, texts, new_texts)
      IN /\ index' = b.index
         /\ texts' = b.texts
         /\ error' = b.error
         /\ last_op' = "build_index"
         /\ last_query' = 0
         /\ last_k' = 0
         /\ results' = <<>>
         /\ ever_built' = (ever_built \/ b.error = "none")
         /\ builds' = IF b.error # "none" THEN builds
                      ELSE IF index # None /\ texts = Some(new_texts)
                      THEN Min(builds + 1, MaxBuildsCounted)
                      ELSE 1

\* a call retriever.search(query, top_k)
search ==
    \E query \in QueryTexts, top_k \in 1..MaxTopK :
      LET s == Search(index, query, top_k)
      IN /\ results' = s.results
         /\ error' = s.error
         /\ last_op' = "search"
         /\ last_query' = query
         /\ last_k' = top_k
         /\ UNCHANGED <<index, texts, ever_built, builds>>

----------------------------------------------------------------------------
(* The screening run *)

\* top_k = 3 in main.py, top_k=3 in streamlit_app.py
TopK == 3

\* a file of the listing: its position as its name, whether parse_resume
\* returns, and the text it returns (0 when it raises)
FileChoices ==
    {[parse_ok |-> FALSE, text |-> 0]} \cup {[parse_ok |-> TRUE, text |-> t] : t \in ResumeTexts}

FileLists == UNION {[1..n -> FileChoices] : n \in 0..MaxFiles}

\* the parse loop: the texts, and the names, of the files parse_resume accepted
RECURSIVE ParseAll(_, _, _, _)
ParseAll(fs, i, acc_texts, acc_names) ==
    IF i > Len(fs) THEN [texts |-> acc_texts, names |-> acc_names]
    ELSE IF fs[i].parse_ok
    THEN ParseAll(fs, i + 1, Append(acc_texts, fs[i].text), Append(acc_names, i))
    ELSE ParseAll(fs, i + 1, acc_texts, acc_names)

\* list[i] in Python: a negative i counts from the end
PyIndexValid(list, i) == 0 - Len(list) <= i /\ i < Len(list)

PyIndex(list, i) == IF i >= 0 THEN list[i + 1] ELSE list[Len(list) + i + 1]

\* the loop over search_results: one line per result
ReportOf(found, names, rtexts) ==
    [r \in 1..Len(found) |->
        [rank |-> r, idx |-> found[r][1], distance |-> found[r][2],
         name |-> PyIndex(names, found[r][1]),
         evaluated |-> PyIndex(rtexts, found[r][1])]]

PipelineIdle ==
    /\ files = <<>>
    /\ jd = 0
    /\ front = "none"
    /\ resume_texts = <<>>
    /\ resume_names = <<>>
    /\ search_results = <<>>
    /\ report = <<>>
    /\ perror = [kind |-> "none", at |-> "none"]
    /\ ppc = "idle"

PipelineInit ==
    /\ files \in FileLists
    /\ jd \in QueryTexts
    /\ front = "none"
    /\ resume_texts = <<>>
    /\ resume_names = <<>>
    /\ search_results = <<>>
    /\ report = <<>>
    /\ perror = [kind |-> "none", at |-> "none"]
    /\ ppc = "start"

\* parse, build_index, search(top_k = 3), report: the body shared by main()
\* and the "Screen Resumes" branch of streamlit_app.py
Screen ==
    LET parsed == ParseAll(files, 1, <<>>, <<>>)
        b == BuildIndex(None, None, parsed.texts)
        s == Search(b.index, jd, TopK)
    IN /\ resume_texts' = parsed.texts
       /\ resume_names' = parsed.names
       /\ IF b.error # "none"
          THEN /\ perror' = [kind |-> b.error, at |-> "build_index"]
               /\ search_results' = <<>>
               /\ report' = <<>>
               /\ ppc' = "failed"
          ELSE IF s.error # "none"
          THEN /\ perror' = [kind |-> s.error, at |-> "search"]
               /\ search_results' = <<>>
               /\ report' = <<>>
               /\ ppc' = "failed"
          ELSE IF \E r \in 1..Len(s.results) : ~PyIndexValid(parsed.names, s.results[r][1])
          THEN /\ perror' = [kind |-> "IndexError", at |-> "report"]
               /\ search_results' = s.results
               /\ report' = <<>>
               /\ ppc' = "failed"
          ELSE /\ perror' = [kind |-> "none", at |-> "none"]
               /\ search_results' = s.results
               /\ report' = ReportOf(s.results, parsed.names, parsed.texts)
               /\ ppc' = "done"

\* main() of main.py
main ==
    /\ ppc = "start"
    /\ front' = "main"
    /\ Screen
    /\ UNCHANGED <<files, jd>>

\* streamlit_app.py, the "Screen Resumes" button pressed
streamlit_app ==
    /\ ppc = "start"
    /\ front' = "streamlit"
    /\ IF jd = 0 \/ files = <<>>
       THEN /\ ppc' = "warned"
            /\ UNCHANGED <<resume_texts, resume_names, search_results, report, perror>>
       ELSE Screen
    /\ UNCHANGED <<files, jd>>

----------------------------------------------------------------------------
(* Specifications *)

InitScorer == ScorerInit /\ RetrieverIdle /\ PipelineIdle

ScorerNext == evaluate /\ UNCHANGED <<retriever_vars, pipeline_vars>>

\* one call of ResumeScorer.evaluate on any texts of the pool
SpecScorer ==
    /\ InitScorer
    /\ [][ScorerNext]_vars

InitRetriever == ScorerIdle /\ RetrieverInit /\ PipelineIdle

RetrieverNext ==
    \/ build_index /\ UNCHANGED <<scorer_vars, pipeline_vars>>
    \/ search /\ UNCHANGED <<scorer_vars, pipeline_vars>>

\* any sequence of build_index and search calls on one ResumeRetriever
SpecRetriever ==
    /\ InitRetriever
    /\ [][RetrieverNext]_vars

InitPipeline == ScorerIdle /\ RetrieverIdle /\ PipelineInit

PipelineNext ==
    \/ main /\ UNCHANGED <<scorer_vars, retriever_vars>>
    \/ streamlit_app /\ UNCHANGED <<scorer_vars, retriever_vars>>

\* one screening run, from the command line or from the page
SpecPipeline ==
    /\ InitPipeline
    /\ [][PipelineNext]_vars

----------------------------------------------------------------------------
(* Properties of ResumeScorer.evaluate, checked under SpecScorer *)

IsSeparator(c) == c \in Whitespace \/ c \in Punctuation

\* the words of a text: its maximal runs of characters that are neither
\* whitespace nor punctuation, lower-cased
WordsOf(text) ==
    LET starts == {i \in 1..Len(text) :
                     ~IsSeparator(text[i]) /\ (i = 1 \/ IsSeparator(text[i - 1]))}
        EndOf(i) == CHOOSE j \in i..Len(text) :
                      /\ \A m \in i..j : ~IsSeparator(text[m])
                      /\ (j = Len(text) \/ IsSeparator(text[j + 1]))
    IN {Lower(SubSeq(text, i, EndOf(i))) : i \in starts}

\* the keyword set of a text: its words longer than 3 characters that are
\* not stopwords
KeywordsOf(text) == {w \in WordsOf(text) : ~(Len(w) <= 3) /\ w \notin stopwords}

\* h hundredths is c / n * 10 rounded to two decimals
IsRounded(h, c, n) ==
    LET twice == 2 * (h * n - 1000 * c)
    IN /\ twice <= n
       /\ 0 - n <= twice
       /\ (twice = n \/ twice = 0 - n) => h % 2 = 0

\* the elements of a set of strings in ascending order
Ascending(S) ==
    [i \in 1..Cardinality(S) |->
        CHOOSE x \in S : Cardinality({y \in S : StrLess(y, x)}) = i - 1]

IsPrefix(p, s) == Len(p) <= Len(s) /\ SubSeq(s, 1, Len(p)) = p

\* digits, optionally followed by one dot and digits, and nothing else
IsPureNumber(s) ==
    /\ s # <<>>
    /\ \A i \in 1..Len(s) : IsDigit(s[i]) \/ s[i] = "."
    /\ Cardinality({i \in 1..Len(s) : s[i] = "."}) <= 1
    /\ IsDigit(s[1])
    /\ IsDigit(s[Len(s)])

\* a text without its leading and trailing whitespace
Stripped(s) ==
    LET inked == {i \in 1..Len(s) : s[i] \notin Whitespace}
    IN IF inked = {} THEN <<>>
       ELSE SubSeq(s, CHOOSE i \in inked : \A j \in inked : i <= j,
                      CHOOSE i \in inked : \A j \in inked : j <= i)

\* C1: evaluate is total. For every pair of texts, the empty ones included,
\* and whatever the generation step does (any text, no text, an exception),
\* the call does not raise and returns a string of at least 20 characters.
C1_EvaluateIsTotal ==
    spc = "done" => /\ outcome \in {"Accepted", "Fallback"}
                    /\ result # <<>>
                    /\ Len(result) >= 20

\* the generation step raised on two empty texts, and evaluate returned the
\* fallback string
C1_Witness ==
    /\ spc = "done"
    /\ generation.kind = "raise"
    /\ job_description = <<>>
    /\ resume_text = <<>>
    /\ outcome = "Fallback"
    /\ Len(result) >= 20

\* C2 as stated: the outcome is Fallback exactly when generation failed or
\* its output, as generated, is empty, a pure number or shorter than 20
\* characters; otherwise it is Accepted and the generated output is returned
\* verbatim.
C2_AsStated ==
    spc = "done" =>
        LET out == generation.text
            trivial == \/ generation.kind \in {"raise", "no_key"}
                       \/ out = <<>>
                       \/ IsPureNumber(out)
                       \/ Len(out) < 20
        IN /\ outcome = (IF trivial THEN "Fallback" ELSE "Accepted")
           /\ outcome = "Accepted" => result = out

\* C2, amended: the same, of the generated output with its leading and
\* trailing whitespace removed; an accepted output is returned stripped.
\* "", "7", "7.5" and a 10-character string go to the fallback, a
\* 25-character text that is no number is returned unchanged.
C2_TrivialityOnStrippedOutput ==
    spc = "done" =>
        LET out == Stripped(generation.text)
            trivial == \/ generation.kind \in {"raise", "no_key"}
                       \/ out = <<>>
                       \/ IsPureNumber(out)
                       \/ Len(out) < 20
        IN /\ outcome = (IF trivial THEN "Fallback" ELSE "Accepted")
           /\ outcome = "Accepted" => result = out
           /\ (generation.kind = "text"
               /\ generation.text \in {<<>>, G_Seven, G_SevenFive, G_Ten})
                 => outcome = "Fallback"
           /\ (generation.kind = "text" /\ generation.text = G_TwentyFive)
                 => outcome = "Accepted" /\ result = G_TwentyFive

\* a generated text of 25 characters between whitespace is accepted, and
\* returned without the whitespace
C2_Witness ==
    /\ spc = "done"
    /\ generation.kind = "text"
    /\ generation.text = G_PaddedTwentyFive
    /\ outcome = "Accepted"
    /\ result = G_TwentyFive
    /\ result # generation.text

\* C3: on the fallback path the rating is |K_query \cap K_candidate| /
\* |K_query| * 10 rounded to two decimals, 0.0 when K_query is empty, and
\* lies in [0, 10]; the example query and candidate rate 7.5.
C3_FallbackRating ==
    (spc = "done" /\ outcome = "Fallback") =>
        LET k_query == KeywordsOf(job_description)
            k_candidate == KeywordsOf(resume_text)
        IN /\ 0 <= score_value /\ score_value <= 1000
           /\ IF k_query = {} THEN score_value = 0
              ELSE IsRounded(score_value, Cardinality(k_query \cap k_candidate),
                             Cardinality(k_query))
           /\ (job_description = T_Query /\ resume_text = T_Candidate)
                => score_value = 750

\* the example: 3 of the 4 query keywords are in the candidate
C3_Witness ==
    /\ spc = "done"
    /\ outcome = "Fallback"
    /\ job_description = T_Query
    /\ resume_text = T_Candidate
    /\ Cardinality(KeywordsOf(job_description)) = 4
    /\ Cardinality(KeywordsOf(job_description) \cap KeywordsOf(resume_text)) = 3
    /\ score_value = 750

E_JavaAgainstCandidate ==
    <<"R", "a", "t", "i", "n", "g", ":", " ", "0", ".", "0", "/", "1", "0", ".", " ",
      "T", "h", "e", " ", "r", "e", "s", "u", "m", "e", " ", "d", "o", "e", "s", " ",
      "n", "o", "t", " ", "s", "h", "o", "w", " ", "c", "l", "e", "a", "r", " ", "k",
      "e", "y", "w", "o", "r", "d", " ", "o", "v", "e", "r", "l", "a", "p", " ", "w",
      "i", "t", "h", " ", "t", "h", "e", " ", "j", "o", "b", " ", "d", "e", "s", "c",
      "r", "i", "p", "t", "i", "o", "n", ".", " ", "M", "i", "s", "s", "i", "n", "g",
      " ", "k", "e", "y", " ", "t", "e", "r", "m", "s", " ", "i", "n", "c", "l", "u",
      "d", "e", ":", " ", "B", "a", "c", "k", "e", "n", "d", ",", " ", "D", "e", "v",
      "e", "l", "o", "p", "e", "r", ",", " ", "J", "a", "v", "a", ".">>

E_MixedAgainstJava ==
    <<"R", "a", "t", "i", "n", "g", ":", " ", "4", ".", "2", "9", "/", "1", "0", ".",
      " ", "T", "h", "e", " ", "r", "e", "s", "u", "m", "e", " ", "s", "h", "o", "w",
      "s", " ", "e", "x", "p", "e", "r", "i", "e", "n", "c", "e", " ", "i", "n", " ",
      "B", "a", "c", "k", "e", "n", "d", ",", " ", "D", "e", "v", "e", "l", "o", "p",
      "e", "r", ",", " ", "J", "a", "v", "a", ",", " ", "w", "h", "i", "c", "h", " ",
      "a", "l", "i", "g", "n", "s", " ", "w", "i", "t", "h", " ", "t", "h", "e", " ",
      "j", "o", "b", " ", "d", "e", "s", "c", "r", "i", "p", "t", "i", "o", "n", ".",
      " ", "M", "i", "s", "s", "i", "n", "g", " ", "k", "e", "y", " ", "t", "e", "r",
      "m", "s", " ", "i", "n", "c", "l", "u", "d", "e", ":", " ", "2", "0", "2", "4",
      "s", ",", " ", "D", "o", "c", "k", "e", "r", ",", " ", "K", "o", "t", "l", "i",
      "n", ".">>

\* C4: the fallback string is "Rating: {score}/10. {explanation}": the
\* affirmative sentence over all overlapping keywords, capitalized and in
\* ascending order, or else the fixed negative sentence; then, when query
\* keywords are missing from the candidate, the clause listing the first
\* min(3, |missing|) of them in ascending order, capitalized.
C4_FallbackText ==
    (spc = "done" /\ outcome = "Fallback") =>
        LET k_query == KeywordsOf(job_description)
            k_candidate == KeywordsOf(resume_text)
            overlap == Ascending(k_query \cap k_candidate)
            missing == Ascending(k_query \ k_candidate)
            listed == SubSeq(missing, 1, Min(3, Len(missing)))
            sentence == IF overlap # <<>>
                        THEN S_ShowsExperience \o Join(CapitalizeAll(overlap))
                             \o S_WhichAligns
                        ELSE S_NoOverlap
            clause == IF missing # <<>>
                      THEN S_Missing \o Join(CapitalizeAll(listed)) \o <<".">>
                      ELSE <<>>
        IN /\ result = S_Rating \o FormatFloat(score_value) \o S_Slash10
                       \o sentence \o clause
           /\ (job_description = T_Java /\ overlap = <<>>)
                => score_value = 0 /\ IsPrefix(S_Rating \o <<"0", ".", "0">> \o S_Slash10
                                               \o S_NoOverlap, result)
           /\ (job_description = T_Java /\ resume_text = T_Candidate)
                => result = E_JavaAgainstCandidate

\* three overlapping keywords are listed, and three of the four missing ones
C4_Witness ==
    /\ spc = "done"
    /\ outcome = "Fallback"
    /\ job_description = T_Mixed
    /\ resume_text = T_Java
    /\ Cardinality(KeywordsOf(job_description) \ KeywordsOf(resume_text)) = 4
    /\ result = E_MixedAgainstJava

----------------------------------------------------------------------------
(* Properties of ResumeRetriever, checked under SpecRetriever *)

Searched == last_op = "search" /\ error = "none"

\* (distance, label) of one result before the other in the stable order
Before(a, b) == a[2] < b[2] \/ (a[2] = b[2] /\ a[1] < b[1])

\* C5 as stated: a search with top_k > 0 over n > 0 stored vectors returns
\* exactly min(top_k, n) results, strictly ascending by distance, no
\* identifier twice.
C5_AsStated ==
    Searched =>
        /\ Len(results) = Min(last_k, Len(Get(index)))
        /\ \A i, j \in 1..Len(results) :
             i < j => results[i][2] < results[j][2] /\ results[i][1] # results[j][1]

\* C6: a search before any build_index has completed fails with the
\* index-not-built error, returns nothing and leaves index and texts as they
\* were; once a build_index has completed, no search fails with that error.
C6_IndexNotBuilt ==
    /\ [](last_op = "search" =>
            IF ever_built THEN error # "IndexNotBuilt"
            ELSE error = "IndexNotBuilt" /\ results = <<>>)
    /\ [][(last_op' = "search" /\ ~ever_built) => index' = index /\ texts' = texts]_vars

\* a search on a retriever whose index was never built has failed
C6_Witness ==
    /\ last_op = "search"
    /\ ~ever_built
    /\ error = "IndexNotBuilt"
    /\ index = None
    /\ texts = None

C9_RebuildIsIdempotent ==
    /\ index # None => Len(Get(index)) = Len(Get(texts))
    /\ (Searched /\ builds >= 2) =>
         results = Search(BuildIndex(None, None, Get(texts)).index, last_query, last_k).results

\* a search after two builds with the same two or more texts
C9_Witness ==
    /\ Searched
    /\ builds >= 2
    /\ Len(Get(texts)) >= 2
    /\ last_k >= 2

----------------------------------------------------------------------------
(* Properties of the screening run, checked under SpecPipeline *)

Ended == ppc \in {"done", "failed"}

\* C7 as stated: with no candidate, build_index completes and the search
\* fails with the index-not-searchable error; the run ends with no other
\* error and never with an empty result list.
C7_AsStated ==
    (Ended /\ resume_texts = <<>>) =>
        /\ ppc = "failed"
        /\ perror = [kind |-> "IndexNotSearchable", at |-> "search"]

\* C10 as stated: the two lists hold the parsed files in order, every
\* identifier reported is a position 0 <= i < n of them, the name and the
\* text at each rank are those at that position, and each rank reports what
\* search returned at that rank.
C10_AsStated ==
    ppc = "done" =>
        LET n == Len(resume_texts)
            parsed == {i \in 1..Len(files) : files[i].parse_ok}
        IN /\ Len(resume_names) = n
           /\ Range(resume_names) = parsed
           /\ \A i \in 1..n : resume_texts[i] = files[resume_names[i]].text
           /\ Len(report) = Len(search_results)
           /\ \A r \in 1..Len(report) :
                /\ report[r].idx = search_results[r][1]
                /\ 0 <= report[r].idx
                /\ report[r].idx < n
                /\ report[r].name = resume_names[report[r].idx + 1]
                /\ report[r].evaluated = resume_texts[report[r].idx + 1]
====
